---- MODULE Spec2Model ----
(***************************************************************************)
(* Model of the GraphSAGE layer of src/sage.py (class SAGEConv): the       *)
(* layer's parameters, the legacy-layout migration, and the forward pass   *)
(* over a graph whose keyed node/edge storage is scoped to the call.       *)
(*                                                                         *)
(* Tensors are two-dimensional and carry exact rational entries: row r of  *)
(* a tensor is num[r] / den[r].  Operations whose value cannot be computed *)
(* exactly (the recurrent reducer, the caller-supplied normalization) give *)
(* a tensor of the right shape whose entries are not known.                *)
(***************************************************************************)
EXTENDS Integers, Sequences, FiniteSets, TLC

\* ---------------------------------------------------------------- bounds
MaxDim == 3        \* input feature widths range over 1..MaxDim
MaxNodes == 3      \* number of source nodes of every graph
NumSeeds == 2      \* distinct random seeds for parameter initialisation
NumFeatSeeds == 2  \* distinct feature tensors / edge-weight tensors tried

\* --------------------------------------------------------------- helpers
RECURSIVE SumSeq(_)
SumSeq(s) == IF s = <<>> THEN 0 ELSE Head(s) + SumSeq(Tail(s))

MaxInt(a, b) == IF a >= b THEN a ELSE b

RECURSIVE MaxSeq(_)
MaxSeq(s) == IF Len(s) = 1 THEN s[1] ELSE MaxInt(s[1], MaxSeq(Tail(s)))

\* Optional vector (a bias that may be None).
None == [some |-> FALSE, v |-> <<>>]
Some(vec) == [some |-> TRUE, v |-> vec]

\* --------------------------------------------------------------- tensors
AbsentT == [kind |-> "absent", rows |-> 0, width |-> 0, known |-> FALSE,
            den |-> <<>>, num |-> <<>>]
ErrT == [kind |-> "error", rows |-> 0, width |-> 0, known |-> FALSE,
         den |-> <<>>, num |-> <<>>]

MkT(r, w, d, n) == [kind |-> "tensor", rows |-> r, width |-> w, known |-> TRUE,
                    den |-> d, num |-> n]

\* torch.zeros(r, w)
ZerosT(r, w) == MkT(r, w, [i \in 1..r |-> 1], [i \in 1..r |-> [j \in 1..w |-> 0]])

\* A tensor of shape (r, w) whose entries the model does not compute.
OpaqueT(r, w) == [ZerosT(r, w) EXCEPT !.known = FALSE]

IsT(x) == x.kind = "tensor"

\* Mathematical equality of two tensors (same shape, same rational entries).
TensorEq(a, b) ==
    /\ IsT(a) /\ IsT(b)
    /\ a.known /\ b.known
    /\ a.rows = b.rows /\ a.width = b.width
    /\ \A r \in 1..a.rows : \A c \in 1..a.width :
          a.num[r][c] * b.den[r] = b.num[r][c] * a.den[r]

IsZeroT(a) ==
    /\ IsT(a) /\ a.known
    /\ \A r \in 1..a.rows : \A c \in 1..a.width : a.num[r][c] = 0

\* x[:n]
SliceRows(x, n) ==
    IF ~IsT(x) THEN ErrT
    ELSE LET k == IF n < x.rows THEN n ELSE x.rows
         IN [x EXCEPT !.rows = k,
                      !.den = SubSeq(x.den, 1, k),
                      !.num = SubSeq(x.num, 1, k)]

\* nn.Linear(inw, outw) applied to x: x W^T + b.  W has outw rows of inw
\* entries.  A width other than inw is a matrix-multiply failure.
Linear(x, W, b, inw, outw) ==
    IF ~IsT(x) \/ x.width # inw THEN ErrT
    ELSE IF ~x.known THEN OpaqueT(x.rows, outw)
    ELSE MkT(x.rows, outw, x.den,
             [r \in 1..x.rows |->
                [o \in 1..outw |->
                   SumSeq([i \in 1..inw |-> x.num[r][i] * W[o][i]])
                   + (IF b.some THEN b.v[o] * x.den[r] ELSE 0)]])

\* Broadcasting rule for one dimension; 0 stands for "not broadcastable".
BroadcastDim(a, b) ==
    IF a = b THEN a ELSE IF a = 1 THEN b ELSE IF b = 1 THEN a ELSE 0

\* a + b with torch broadcasting on both dimensions.
AddT(a, b) ==
    IF ~IsT(a) \/ ~IsT(b) THEN ErrT
    ELSE LET R == BroadcastDim(a.rows, b.rows)
             Wd == BroadcastDim(a.width, b.width)
         IN IF (R = 0 /\ a.rows # 0) \/ (Wd = 0 /\ a.width # 0) THEN ErrT
            ELSE IF ~(a.known /\ b.known) THEN OpaqueT(R, Wd)
            ELSE LET ra(r) == IF a.rows = 1 THEN 1 ELSE r
                     rb(r) == IF b.rows = 1 THEN 1 ELSE r
                     ca(c) == IF a.width = 1 THEN 1 ELSE c
                     cb(c) == IF b.width = 1 THEN 1 ELSE c
                 IN MkT(R, Wd,
                        [r \in 1..R |-> a.den[ra(r)] * b.den[rb(r)]],
                        [r \in 1..R |-> [c \in 1..Wd |->
                            a.num[ra(r)][ca(c)] * b.den[rb(r)]
                            + b.num[rb(r)][cb(c)] * a.den[ra(r)]]])

\* rst + self.bias, the bias being a vector broadcast over the rows.
AddBias(x, vec) ==
    AddT(x, MkT(1, Len(vec), <<1>>, <<vec>>))

\* x / (degs.unsqueeze(-1) + 1)
DivDegPlusOne(x, degs) ==
    IF ~IsT(x) \/ x.rows # Len(degs) THEN ErrT
    ELSE [x EXCEPT !.den = [r \in 1..x.rows |-> x.den[r] * (degs[r] + 1)]]

\* F.relu
Relu(x) ==
    IF ~IsT(x) THEN ErrT
    ELSE [x EXCEPT !.num = [r \in 1..x.rows |->
                              [c \in 1..x.width |-> MaxInt(x.num[r][c], 0)]]]

\* nn.Dropout(p) in training mode.  p is 0 (the default: identity) or 1/2:
\* an element is either zeroed or scaled by 1/(1-p) = 2, by a random mask.
DropMask(ms, r, c) == (ms + r + c) % 2 = 0
Dropout(x, p2, ms) ==
    IF ~IsT(x) THEN ErrT
    ELSE IF p2 = 0 THEN x
    ELSE [x EXCEPT !.num = [r \in 1..x.rows |->
                              [c \in 1..x.width |->
                                 IF DropMask(ms, r, c) THEN 0
                                 ELSE 2 * x.num[r][c]]]]

\* ------------------------------------------------------------ parameters
\* nn.init.xavier_uniform_: a random matrix, here a function of the seed.
XavierUniform(seed, outw, inw) ==
    [o \in 1..outw |-> [i \in 1..inw |-> ((seed + o + 2 * i) % 3) - 1]]

Recognized == {"mean", "gcn", "pool", "lstm"}

\* Which projections __init__ allocates for an aggregator tag.
AllocFcPool(aggregator_type) == aggregator_type = "pool"
AllocLstm(aggregator_type) == aggregator_type = "lstm"
\* (variant: fc_self allocated whatever the tag)
AllocFcSelf_Always(aggregator_type) == TRUE
AllocFcSelf(aggregator_type) == aggregator_type # "gcn"

\* The bias of __init__: a zero parameter of length out_feats, or None.
InitBias(bias, out_feats) ==
    IF bias THEN Some([i \in 1..out_feats |-> 0]) ELSE None

\* reset_parameters: re-draws the projection weights of the variant.
reset_parameters(L, seed) ==
    [L EXCEPT
       !.fc_pool_weight = IF L.aggre_type = "pool"
                          THEN XavierUniform(seed + 2, L.in_src, L.in_src)
                          ELSE @,
       !.lstm_seed = IF L.aggre_type = "lstm" THEN seed ELSE @,
       !.fc_self_weight = IF L.aggre_type # "gcn"
                          THEN XavierUniform(seed + 1, L.out, L.in_dst)
                          ELSE @,
       !.fc_neigh_weight = XavierUniform(seed, L.out, L.in_src)]

\* SAGEConv.__init__.  in_feats is the pair expand_as_pair gives; post
\* bundles feat_drop, activation and norm.
SAGEConvInit(in_feats, out_feats, aggregator_type, bias, post, seed) ==
    reset_parameters(
      [in_src |-> in_feats[1], in_dst |-> in_feats[2], out |-> out_feats,
       aggre_type |-> aggregator_type,
       feat_drop |-> post.feat_drop,
       activation |-> post.activation,
       norm |-> post.norm,
       has_fc_pool |-> AllocFcPool(aggregator_type),
       fc_pool_weight |-> <<>>,
       fc_pool_bias |-> IF AllocFcPool(aggregator_type)
                        THEN Some([i \in 1..in_feats[1] |-> i % 2]) ELSE None,
       has_lstm |-> AllocLstm(aggregator_type),
       lstm_seed |-> 0,
       has_fc_self |-> AllocFcSelf(aggregator_type),
       fc_self_weight |-> <<>>,
       fc_self_bias |-> None,
       fc_neigh_weight |-> <<>>,
       fc_neigh_bias |-> None,
       has_bias |-> TRUE,
       bias |-> InitBias(bias, out_feats),
       constructed |-> TRUE,
       bias_enabled |-> bias],
      seed)

\* A layer in the older layout that _compatibility_check detects: it has no
\* bias field and the projections may carry biases of their own.
LegacyBias(k, out_feats) == [i \in 1..out_feats |-> k + i]
LegacyLayer(in_feats, out_feats, aggregator_type, nb, sb, post, seed) ==
    [SAGEConvInit(in_feats, out_feats, aggregator_type, FALSE, post, seed)
       EXCEPT !.has_bias = FALSE,
              !.bias = None,
              !.fc_neigh_bias = IF nb THEN Some(LegacyBias(1, out_feats)) ELSE None,
              !.fc_self_bias = IF sb /\ AllocFcSelf(aggregator_type)
                               THEN Some(LegacyBias(3, out_feats)) ELSE None,
              !.constructed = FALSE,
              !.bias_enabled = nb]

\* bias + self.fc_self.bias
VecAdd(a, b) == [i \in 1..Len(a) |-> a[i] + b[i]]

\* _compatibility_check: the layer afterwards and whether it raised.
\* Adding None to a tensor raises TypeError after fc_neigh.bias was cleared
\* and before self.bias is stored.
_compatibility_check(L) ==
    IF L.has_bias THEN [layer |-> L, raised |-> FALSE, ran |-> FALSE]
    ELSE LET bias == L.fc_neigh_bias
             L1 == [L EXCEPT !.fc_neigh_bias = None]
         IN IF L.has_fc_self /\ bias.some
            THEN IF ~L.fc_self_bias.some
                 THEN [layer |-> L1, raised |-> TRUE, ran |-> TRUE]
                 ELSE [layer |-> [L1 EXCEPT
                                    !.fc_self_bias = None,
                                    !.has_bias = TRUE,
                                    !.bias = Some(VecAdd(bias.v, L.fc_self_bias.v))],
                       raised |-> FALSE, ran |-> TRUE]
            ELSE [layer |-> [L1 EXCEPT !.has_bias = TRUE, !.bias = bias],
                  raised |-> FALSE, ran |-> TRUE]

\* ----------------------------------------------------------------- graph
\* The keys forward writes into the graph's keyed storage.
Keys == {"h", "neigh", "_edge_weight"}
EmptyFrame == [k \in Keys |-> AbsentT]
EmptyData == [src |-> EmptyFrame, dst |-> EmptyFrame, e |-> EmptyFrame]

\* graph.number_of_edges()
number_of_edges(G) == Len(G.edges)

\* graph.in_degrees(): one entry per destination node.
in_degrees(G) ==
    [v \in 1..G.n_dst |->
       Cardinality({e \in 1..Len(G.edges) : G.edges[e][2] = v})]

\* graph.srcdata / graph.dstdata: a block keeps separate source and
\* destination frames; on any other graph both name the one node frame.
srcdata(G, fr) == fr.src
dstdata(G, fr) == IF G.is_block THEN fr.dst ELSE fr.src
SetSrc(G, fr, k, t) == [fr EXCEPT !.src[k] = t]
SetDst(G, fr, k, t) ==
    IF G.is_block THEN [fr EXCEPT !.dst[k] = t] ELSE [fr EXCEPT !.src[k] = t]

\* graph.edata[k] = t: per-edge storage holds one row per edge.
SetEdge(G, fr, k, t) == [fr EXCEPT !.e[k] = t]
EdgeRowsOk(G, t) == t.rows = number_of_edges(G)

\* with graph.local_scope(): the frames are cloned on entry, and on every
\* exit of the with-block, by return or by exception, the frames saved on
\* entry are put back (the graph engine's contract for its scoped storage;
\* forward itself has no other cleanup).
LocalScopeEnter(gd) == gd
\* (variant: no scope around the body, the writes land in the graph's own
\* frames)
LocalScopeExit_Leak(saved, scratch) == scratch
LocalScopeExit(saved, scratch) == saved

RECURSIVE ProdSeq(_)
ProdSeq(s) == IF s = <<>> THEN 1 ELSE Head(s) * ProdSeq(Tail(s))

\* graph.update_all(msg_fn, reduce_fn) writing 'neigh' on the destination
\* side.  msg_fn is copy_src('h','m') or, when weighted, u_mul_e('h',
\* '_edge_weight','m').  On a graph without edges no message passing is
\* triggered and nothing is written (hence lines 104-107 of forward).
\* Destination nodes without incoming edges get zeros.  The custom reducer
\* (_lstm_reducer) returns the final hidden state, of width hidden, whose
\* entries are not computed.
update_all(G, fr, weighted, reducer, hidden) ==
    IF number_of_edges(G) = 0 THEN fr
    ELSE
      LET h == srcdata(G, fr)["h"]
          w == fr.e["_edge_weight"]
          E == number_of_edges(G)
          D == ProdSeq(h.den)
          m(e, c) == h.num[G.edges[e][1]][c] * (D \div h.den[G.edges[e][1]])
                     * (IF weighted THEN w.num[e][1] ELSE 1)
          incoming(v) == SelectSeq([e \in 1..E |-> e],
                                   LAMBDA e : G.edges[e][2] = v)
          deg(v) == Len(incoming(v))
          total(v, c) == SumSeq([i \in 1..deg(v) |-> m(incoming(v)[i], c)])
          top(v, c) == IF deg(v) = 0 THEN 0
                       ELSE MaxSeq([i \in 1..deg(v) |-> m(incoming(v)[i], c)])
          neigh ==
            IF ~IsT(h) \/ (weighted /\ ~IsT(w)) \/ h.rows # G.n_src THEN ErrT
            ELSE IF reducer = "lstm"
                 THEN (IF h.width = hidden THEN OpaqueT(G.n_dst, hidden) ELSE ErrT)
            ELSE IF ~h.known THEN OpaqueT(G.n_dst, h.width)
            ELSE IF reducer = "mean"
                 THEN MkT(G.n_dst, h.width,
                          [v \in 1..G.n_dst |-> D * MaxInt(deg(v), 1)],
                          [v \in 1..G.n_dst |-> [c \in 1..h.width |-> total(v, c)]])
            ELSE IF reducer = "sum"
                 THEN MkT(G.n_dst, h.width,
                          [v \in 1..G.n_dst |-> D],
                          [v \in 1..G.n_dst |-> [c \in 1..h.width |-> total(v, c)]])
            ELSE MkT(G.n_dst, h.width,
                     [v \in 1..G.n_dst |-> D],
                     [v \in 1..G.n_dst |-> [c \in 1..h.width |-> top(v, c)]])
      IN SetDst(G, fr, "neigh", neigh)

\* ---------------------------------------------------------------- forward
\* (variant: the assertion written with <= instead of ==)
EdgeWeightCheck_AtMost(edge_weight, G) == Len(edge_weight.v) <= number_of_edges(G)
\* assert edge_weight.shape[0] == graph.number_of_edges()
EdgeWeightCheck(edge_weight, G) == Len(edge_weight.v) = number_of_edges(G)

\* (variant: the chain ends in a plain else that treats any other tag as mean)
Dispatch_ElseMean(aggre_type) ==
    IF aggre_type \in Recognized THEN aggre_type ELSE "mean"
\* The branch the if/elif chain of lines 113-145 takes for an aggregator
\* tag; "KeyError" is the final else.
Dispatch(aggre_type) ==
    IF aggre_type \in Recognized THEN aggre_type ELSE "KeyError"

\* check_eq_shape(feat): for a pair, source and destination feature shapes
\* (all but the first dimension) must agree.
check_eq_shape(feat) == feat.is_pair => feat.src.width = feat.dst.width

\* lin_before_mp = self._in_src_feats > self._out_feats
LinBeforeMp(L) == L.in_src > L.out

fc_neigh(L, x) == Linear(x, L.fc_neigh_weight, L.fc_neigh_bias, L.in_src, L.out)
fc_self(L, x) == Linear(x, L.fc_self_weight, L.fc_self_bias, L.in_dst, L.out)
fc_pool(L, x) == Linear(x, L.fc_pool_weight, L.fc_pool_bias, L.in_src, L.in_src)

\* The caller-supplied norm(rst, p=2.0): keeps the shape.
Normalize(x) == IF ~IsT(x) THEN ErrT ELSE OpaqueT(x.rows, x.width)

\* h_neigh after the reduction: projected now unless it was before.
ProjectAfter(L, n, lin_before_mp) ==
    IF lin_before_mp THEN n ELSE fc_neigh(L, n)

\* graph.srcdata['h'] = self.fc_neigh(feat_src) if lin_before_mp else feat_src
SetSrcH(L, G, fr, feat_src, lin_before_mp) ==
    SetSrc(G, fr, "h", IF lin_before_mp THEN fc_neigh(L, feat_src) ELSE feat_src)

\* Lines 116-118: h_neigh read back after the mean reduction.
MeanRead(L, G, fr, lin_before_mp) ==
    [fr |-> fr, raised |-> "",
     h_neigh |-> ProjectAfter(L, dstdata(G, fr)["neigh"], lin_before_mp)]

\* Lines 113-118: the mean branch, with the side of the projection given.
MeanBranch(L, G, fr, weighted, feat_src, lin_before_mp) ==
    MeanRead(L, G,
             update_all(G, SetSrcH(L, G, fr, feat_src, lin_before_mp),
                        weighted, "mean", L.in_src),
             lin_before_mp)

\* Lines 122-128: graph.dstdata['h'] of the gcn branch.
GcnSetDstH(L, G, fr, feat, feat_dst, lin_before_mp) ==
    IF feat.is_pair
    THEN SetDst(G, fr, "h",
                IF lin_before_mp THEN fc_neigh(L, feat_dst) ELSE feat_dst)
    ELSE IF G.is_block
         THEN SetDst(G, fr, "h", SliceRows(srcdata(G, fr)["h"], G.n_dst))
         ELSE SetDst(G, fr, "h", srcdata(G, fr)["h"])

\* Lines 131-134: the degree-normalised sum read back.
GcnRead(L, G, fr, lin_before_mp) ==
    [fr |-> fr, raised |-> "",
     h_neigh |-> ProjectAfter(L,
                   DivDegPlusOne(AddT(dstdata(G, fr)["neigh"], dstdata(G, fr)["h"]),
                                 in_degrees(G)),
                   lin_before_mp)]

\* Lines 119-134: the gcn branch.
GcnBranch(L, G, fr, weighted, feat, feat_src, feat_dst, lin_before_mp) ==
    IF ~check_eq_shape(feat)
    THEN [fr |-> fr, raised |-> "DGLError", h_neigh |-> ErrT]
    ELSE GcnRead(L, G,
                 update_all(G,
                            GcnSetDstH(L, G,
                                       SetSrcH(L, G, fr, feat_src, lin_before_mp),
                                       feat, feat_dst, lin_before_mp),
                            weighted, "sum", L.in_src),
                 lin_before_mp)

\* Lines 138 and 143: h_neigh = self.fc_neigh(graph.dstdata['neigh'])
NeighRead(L, G, fr) ==
    [fr |-> fr, raised |-> "", h_neigh |-> fc_neigh(L, dstdata(G, fr)["neigh"])]

\* Lines 135-138: the pool branch.
PoolBranch(L, G, fr, weighted, feat_src) ==
    NeighRead(L, G,
              update_all(G, SetSrc(G, fr, "h", Relu(fc_pool(L, feat_src))),
                         weighted, "max", L.in_src))

\* Lines 140-143: the lstm branch.
LstmBranch(L, G, fr, weighted, feat_src) ==
    NeighRead(L, G,
              update_all(G, SetSrc(G, fr, "h", feat_src),
                         weighted, "lstm", L.in_src))

\* Lines 89-95: feat_src and feat_dst after dropout.
FeatDst(G, feat, feat_src, p2, ms) ==
    IF feat.is_pair THEN Dropout(feat.dst, p2, ms + 1)
    ELSE IF G.is_block THEN SliceRows(feat_src, G.n_dst)
    ELSE feat_src
Preprocess(L, G, feat, ms) ==
    [src |-> Dropout(feat.src, L.feat_drop, ms),
     dst |-> FeatDst(G, feat, Dropout(feat.src, L.feat_drop, ms), L.feat_drop, ms)]

\* The edge_weight argument as a tensor with one row per weight.
EdgeWeightTensor(edge_weight) ==
    MkT(Len(edge_weight.v), 1,
        [e \in 1..Len(edge_weight.v) |-> 1],
        [e \in 1..Len(edge_weight.v) |-> <<edge_weight.v[e]>>])

\* Lines 104-107: 'neigh' preset to zeros on a graph without edges.
ZeroEdgeNeigh(L, G, fr, feat_dst) ==
    IF number_of_edges(G) = 0
    THEN SetDst(G, fr, "neigh", ZerosT(feat_dst.rows, L.in_src))
    ELSE fr

\* Lines 112-145: the branch taken and what it leaves.
MessagePassing(L, G, fr, weighted, feat, ft, branch, lin_before_mp) ==
    CASE branch = "mean" ->
           MeanBranch(L, G, fr, weighted, ft.src, lin_before_mp)
      [] branch = "gcn" ->
           GcnBranch(L, G, fr, weighted, feat, ft.src, ft.dst, lin_before_mp)
      [] branch = "pool" -> PoolBranch(L, G, fr, weighted, ft.src)
      [] branch = "lstm" -> LstmBranch(L, G, fr, weighted, ft.src)
      [] OTHER -> [fr |-> fr, raised |-> "KeyError", h_neigh |-> ErrT]

\* Lines 147-151: rst before bias, activation and normalization.
Combine(L, h_self, h_neigh) ==
    IF L.aggre_type = "gcn" THEN h_neigh ELSE AddT(fc_self(L, h_self), h_neigh)

\* Lines 159-167.
Bias(L, rst) == IF L.bias.some THEN AddBias(rst, L.bias.v) ELSE rst
Activation(L, rst) == IF L.activation THEN Relu(rst) ELSE rst
Norm(L, rst) == IF L.norm THEN Normalize(rst) ELSE rst

\* The record of a call that raised.
Raised(status, message, fr, steps, ft, L) ==
    [status |-> status, message |-> message, fr |-> fr, steps |-> steps,
     feat_src |-> ft.src, feat_dst |-> ft.dst, lin_before_mp |-> LinBeforeMp(L),
     h_neigh |-> ErrT, rst_pre |-> ErrT, rst |-> ErrT]

\* The record of a call that reached line 170, or failed in a tensor
\* operation on the way.
Outcome(L, ft, b, rst_pre, rst, steps) ==
    IF ~IsT(rst)
    THEN Raised("RuntimeError", "tensor shape", b.fr,
                steps \o <<"update_all">>, ft, L)
    ELSE [status |-> "returned", message |-> "", fr |-> b.fr,
          steps |-> steps \o <<"update_all", "combine", "return">>,
          feat_src |-> ft.src, feat_dst |-> ft.dst,
          lin_before_mp |-> LinBeforeMp(L),
          h_neigh |-> b.h_neigh, rst_pre |-> rst_pre, rst |-> rst]

Finish(L, ft, b, rst_pre, steps) ==
    Outcome(L, ft, b, rst_pre, Norm(L, Activation(L, Bias(L, rst_pre))), steps)

AfterBranch(L, ft, b, steps) ==
    IF b.raised = "KeyError"
    THEN Raised("KeyError", L.aggre_type, b.fr, steps, ft, L)
    ELSE IF b.raised # ""
    THEN Raised(b.raised, "feature shape", b.fr, steps, ft, L)
    ELSE Finish(L, ft, b, Combine(L, ft.dst, b.h_neigh), steps)

StepsBeforeBranch(G, weighted) ==
    <<"local_scope", "feat_drop">>
    \o (IF weighted THEN <<"edge_weight_check", "set_edge_weight">> ELSE <<>>)
    \o (IF number_of_edges(G) = 0 THEN <<"zero_neigh">> ELSE <<>>)
    \o <<"dispatch">>

\* Lines 96-170 once feat_src and feat_dst are there.
Checked(L, G, fr0, feat, ft, edge_weight, ewT) ==
    IF edge_weight.some /\ ~EdgeWeightCheck(edge_weight, G)
    THEN Raised("AssertionError", "edge_weight length", fr0,
                <<"local_scope", "feat_drop", "edge_weight_check">>, ft, L)
    ELSE IF edge_weight.some /\ ~EdgeRowsOk(G, ewT)
    THEN Raised("DGLError", "edata rows", fr0,
                <<"local_scope", "feat_drop", "set_edge_weight">>, ft, L)
    ELSE AfterBranch(L, ft,
           MessagePassing(L, G,
              ZeroEdgeNeigh(L, G,
                 IF edge_weight.some
                 THEN SetEdge(G, fr0, "_edge_weight", ewT) ELSE fr0,
                 ft.dst),
              edge_weight.some, feat, ft, Dispatch(L.aggre_type), LinBeforeMp(L)),
           StepsBeforeBranch(G, edge_weight.some))

\* Lines 88-170 of forward, after _compatibility_check: the outcome of the
\* call and the scoped frames as they are when the with-block is left.
ForwardBody(L, G, gd, feat, edge_weight, ms) ==
    Checked(L, G, LocalScopeEnter(gd), feat, Preprocess(L, G, feat, ms),
            edge_weight, EdgeWeightTensor(edge_weight))

\* ---------------------------------------------------------- state machine
VARIABLES
    layer,         \* the SAGEConv object: configuration and parameters
    graph,         \* the graph's topology (fixed for the graph object)
    gdata,         \* the graph's persistent keyed node/edge storage
    call,          \* the last forward call: its inputs and its outcome
    n_migrations   \* forward calls whose _compatibility_check changed the layer

vars == <<layer, graph, gdata, call, n_migrations>>

\* Inputs tried.
InFeats == {<<d, d>> : d \in 1..MaxDim} \cup {<<2, 1>>}
OutFeats == {1, 2}
AggregatorTypes == Recognized \cup {"attn"}
Plain == [feat_drop |-> 0, activation |-> FALSE, norm |-> FALSE]
Full == [feat_drop |-> 1, activation |-> TRUE, norm |-> TRUE]
Configs == {[bias |-> FALSE, post |-> Plain], [bias |-> TRUE, post |-> Full]}
LegacyInFeats == {<<2, 2>>}
LegacyTypes == {"mean", "gcn"}

\* A homogeneous graph or a sampled block on MaxNodes source nodes, either
\* without edges or with the edges 2->1, 3->1, ..., 1->2.
MkGraph(is_block, with_edges) ==
    [is_block |-> is_block,
     n_src |-> MaxNodes,
     n_dst |-> IF is_block THEN MaxNodes - 1 ELSE MaxNodes,
     edges |-> IF with_edges
               THEN [i \in 1..MaxNodes |->
                       IF i < MaxNodes THEN <<i + 1, 1>> ELSE <<1, 2>>]
               ELSE <<>>]

\* Data the caller stored on the graph before any forward call, under the
\* very keys forward uses.
UserT(rows) == MkT(rows, 1, [r \in 1..rows |-> 1], [r \in 1..rows |-> <<7>>])
UserData(G) ==
    [src |-> [EmptyFrame EXCEPT !["h"] = UserT(G.n_src),
                                !["neigh"] = UserT(G.n_src)],
     dst |-> IF G.is_block
             THEN [EmptyFrame EXCEPT !["h"] = UserT(G.n_dst),
                                     !["neigh"] = UserT(G.n_dst)]
             ELSE EmptyFrame,
     e |-> [EmptyFrame EXCEPT !["_edge_weight"] = UserT(number_of_edges(G))]]

\* A feature tensor of integers in -2..2.
FeatT(fs, rows, width) ==
    MkT(rows, width, [r \in 1..rows |-> 1],
        [r \in 1..rows |-> [c \in 1..width |-> ((fs + 2 * r + 3 * c) % 5) - 2]])

\* The feat argument: one tensor over the source nodes, or a pair (only on
\* a graph with separate source and destination sides).
MkFeat(is_pair, fs, L, G) ==
    [is_pair |-> is_pair,
     src |-> FeatT(fs, G.n_src, L.in_src),
     dst |-> IF is_pair THEN FeatT(fs + 1, G.n_dst, L.in_dst) ELSE AbsentT]

\* The edge_weight argument: None, one weight per edge, or a tensor one
\* longer or one shorter than the edge count.
EdgeWeightT(len, s) == Some([e \in 1..len |-> 1 + ((e + s) % 3)])
EdgeWeights(G, s) ==
    {None, EdgeWeightT(number_of_edges(G), s),
     EdgeWeightT(number_of_edges(G) + 1, s)}
    \cup (IF number_of_edges(G) > 0
          THEN {EdgeWeightT(number_of_edges(G) - 1, s)} ELSE {})

NoCall ==
    [status |-> "none", steps |-> <<>>, message |-> "",
     is_pair |-> FALSE, weighted |-> FALSE, ew_len |-> 0,
     layer_before |-> [has_bias |-> TRUE], compat_ran |-> FALSE,
     feat_src |-> AbsentT, feat_dst |-> AbsentT, lin_before_mp |-> FALSE,
     h_neigh |-> AbsentT, rst_pre |-> AbsentT, rst |-> AbsentT,
     gdata_before |-> EmptyData, fr |-> EmptyData]

Init ==
    /\ \/ \E in_feats \in InFeats, out_feats \in OutFeats,
             aggregator_type \in AggregatorTypes, cfg \in Configs :
            layer = SAGEConvInit(in_feats, out_feats, aggregator_type,
                                 cfg.bias, cfg.post, 0)
       \/ \E in_feats \in LegacyInFeats, out_feats \in OutFeats,
             aggregator_type \in LegacyTypes, nb \in BOOLEAN, sb \in BOOLEAN :
            layer = LegacyLayer(in_feats, out_feats, aggregator_type, nb, sb, Plain, 0)
    /\ \E is_block \in BOOLEAN, with_edges \in BOOLEAN :
          graph = MkGraph(is_block, with_edges)
    /\ gdata \in {EmptyData, UserData(graph)}
    /\ call = NoCall
    /\ n_migrations = 0

\* What the call leaves: the layer after _compatibility_check, the graph
\* storage after the with-block, and the record of the call.
ForwardEffect(cc, r, inputs) ==
    /\ layer' = cc.layer
    /\ n_migrations' = IF cc.layer # layer THEN n_migrations + 1
                       ELSE n_migrations
    /\ IF cc.raised
       THEN /\ gdata' = gdata
            /\ call' = Raised("TypeError", "bias + None", gdata,
                              <<"_compatibility_check">>,
                              [src |-> AbsentT, dst |-> AbsentT], layer)
                       @@ inputs
       ELSE /\ gdata' = LocalScopeExit(gdata, r.fr)
            /\ call' = [r EXCEPT !.steps = <<"_compatibility_check">> \o @]
                       @@ inputs
    /\ UNCHANGED graph

\* forward(graph, feat, edge_weight): _compatibility_check, then the body
\* inside graph.local_scope().
ForwardCall(cc, is_pair, fs, edge_weight) ==
    ForwardEffect(cc,
                  ForwardBody(cc.layer, graph, gdata,
                              MkFeat(is_pair, fs, layer, graph), edge_weight, fs),
                  [is_pair |-> is_pair, weighted |-> edge_weight.some,
                   ew_len |-> Len(edge_weight.v),
                   layer_before |-> layer, compat_ran |-> cc.ran,
                   gdata_before |-> gdata])

Forward ==
    \E is_pair \in (IF graph.is_block THEN BOOLEAN ELSE {FALSE}),
       fs \in 0..(NumFeatSeeds - 1) :
     \E edge_weight \in EdgeWeights(graph, fs) :
      ForwardCall(_compatibility_check(layer), is_pair, fs, edge_weight)

\* reset_parameters() called by the user of the layer.
ResetParameters ==
    \E seed \in 0..(NumSeeds - 1) :
      /\ layer' = reset_parameters(layer, seed)
      /\ call' = NoCall
      /\ UNCHANGED <<graph, gdata, n_migrations>>

Next == Forward \/ ResetParameters

Spec == Init /\ [][Next]_vars

\* ------------------------------------------------------------- properties
Called == call.status # "none"
HasStep(st) == \E i \in 1..Len(call.steps) : call.steps[i] = st
LengthMismatch == call.weighted /\ call.ew_len # number_of_edges(graph)

C2_EdgeWeightLengthFails ==
    (Called /\ layer.aggre_type \in Recognized /\ LengthMismatch) =>
        /\ call.status \in {"AssertionError", "TypeError"}
        /\ ~IsT(call.rst)
        /\ ~HasStep("set_edge_weight") /\ ~HasStep("dispatch")
        /\ ~HasStep("update_all")
        /\ call.status = "AssertionError" =>
              call.steps[Len(call.steps)] = "edge_weight_check"
        /\ call.status = "TypeError" => call.compat_ran

C2_Witness ==
    /\ Called /\ layer.aggre_type = "lstm" /\ LengthMismatch
    /\ call.ew_len < number_of_edges(graph)
    /\ call.status = "AssertionError"

\* C3 as stated: every forward call on a layer with an unrecognized tag
\* fails with the error that names the tag.
C3_AlwaysNamesTag ==
    (Called /\ layer.aggre_type \notin Recognized) =>
        /\ call.status = "KeyError"
        /\ call.message = layer.aggre_type
        /\ ~IsT(call.rst)

\* C3 amended: a forward call on a layer with an unrecognized tag never
\* returns a tensor; it fails at the edge-weight length check when the
\* edge-weight tensor has the wrong length, and otherwise with the error
\* naming the tag.
C3_FailsNamingTagUnlessLength ==
    (Called /\ layer.aggre_type \notin Recognized) =>
        /\ call.status # "returned"
        /\ ~IsT(call.rst)
        /\ IF LengthMismatch
           THEN call.status = "AssertionError"
           ELSE call.status = "KeyError" /\ call.message = layer.aggre_type

\* An unrecognized tag raising on a graph without edges.
C3_Witness ==
    /\ layer.constructed /\ layer.aggre_type \notin Recognized
    /\ number_of_edges(graph) = 0
    /\ call.status = "KeyError" /\ call.message = "attn"

\* The unified bias the migration is to produce: the neighbor-projection
\* bias plus the self-projection bias where a self projection exists.
ExpectedUnified(Lb) ==
    IF Lb.has_fc_self /\ Lb.fc_self_bias.some
    THEN IF Lb.fc_neigh_bias.some
         THEN Some(VecAdd(Lb.fc_neigh_bias.v, Lb.fc_self_bias.v))
         ELSE Lb.fc_self_bias
    ELSE Lb.fc_neigh_bias

\* C4: once the migration has run on a layer without a bias field, the
\* unified bias is the neighbor-projection bias plus the self-projection
\* bias (the neighbor-projection bias alone without a self projection), and
\* both projection biases are cleared.
C4_MigrationUnifiesBias ==
    (Called /\ call.compat_ran) =>
        /\ layer.has_bias
        /\ layer.bias = ExpectedUnified(call.layer_before)
        /\ ~layer.fc_neigh_bias.some
        /\ ~layer.fc_self_bias.some

BiasFields(L) == <<L.has_bias, L.bias, L.fc_neigh_bias, L.fc_self_bias>>

\* C5: over any sequence of forward calls the migration changes the
\* layer's parameters in at most one of them; it is the first step of every
\* forward call, and a call on a layer that has a bias field leaves the
\* unified bias and the projection biases as they were.
C5_MigratesAtMostOnce ==
    /\ n_migrations <= 1
    /\ Called => call.steps[1] = "_compatibility_check"
    /\ (Called /\ call.layer_before.has_bias) =>
          /\ ~call.compat_ran
          /\ BiasFields(layer) = BiasFields(call.layer_before)

ValidInputs ==
    /\ Called
    /\ layer.aggre_type \in Recognized
    /\ layer.in_src = layer.in_dst
    /\ ~LengthMismatch
    /\ call.status # "TypeError"

\* C6: on a graph with zero edges a forward call of any of the four
\* variants returns, whatever the relation between input and output
\* width, the neighbor aggregate is all zeros, and for mean, pool and lstm the value before bias, activation
\* and normalization is the self projection of the destination features.
C6_ZeroEdgesReturnSelf ==
    (ValidInputs /\ number_of_edges(graph) = 0) =>
        /\ call.status = "returned"
        /\ IsZeroT(dstdata(graph, call.fr)["neigh"])
        /\ layer.aggre_type # "gcn" =>
              TensorEq(call.rst_pre, fc_self(layer, call.feat_dst))

\* C7: every forward call that returns gives a tensor of shape
\* (number of destination nodes, out_feats), and the neighbor result has
\* width out_feats.
C7_OutputShape ==
    call.status = "returned" =>
        /\ call.rst.rows = graph.n_dst
        /\ call.rst.width = layer.out
        /\ layer.aggre_type # "gcn" => call.h_neigh.width = layer.out

\* C8: for the mean variant the neighbor result of the path the call took
\* equals the neighbor result of the other path (projection on the other
\* side of the reduction), with the same projection matrix.
C8_MeanProjectionCommutes ==
    (call.status = "returned" /\ layer.aggre_type = "mean") =>
        TensorEq(call.h_neigh,
                 MeanBranch(layer, graph, call.fr, call.weighted, call.feat_src,
                            ~call.lin_before_mp).h_neigh)

\* (sum over incoming edges of the projected source feature + projected
\* feature of the destination node itself) / (in-degree + 1)
GcnExpected(L, G, feat_src, feat_dst) ==
    MkT(G.n_dst, L.out,
        [v \in 1..G.n_dst |-> in_degrees(G)[v] + 1],
        [v \in 1..G.n_dst |-> [c \in 1..L.out |->
            SumSeq([e \in 1..number_of_edges(G) |->
                      IF G.edges[e][2] = v
                      THEN fc_neigh(L, feat_src).num[G.edges[e][1]][c] ELSE 0])
            + fc_neigh(L, feat_dst).num[v][c]]])

\* C9: for the gcn variant (without edge weights) the result before bias,
\* activation and normalization is, for every destination node, the sum of
\* the projected features of its in-neighbors and of itself divided by
\* in-degree + 1; the layer has no self projection.
C9_GcnDegreeNormalisedSum ==
    (call.status = "returned" /\ layer.aggre_type = "gcn" /\ ~call.weighted) =>
        /\ ~layer.has_fc_self
        /\ TensorEq(call.rst_pre,
                    GcnExpected(layer, graph, call.feat_src, call.feat_dst))

IsMatrix(W, r, c) == Len(W) = r /\ \A i \in 1..r : Len(W[i]) = c

\* C10: a constructed layer holds, in every state, exactly the parameters
\* of its variant: fc_neigh always, fc_self iff the tag is not gcn,
\* fc_pool iff pool, lstm iff lstm, and a bias vector (zeros of length
\* out_feats) iff bias was enabled.
C10_ParametersOfVariant ==
    layer.constructed =>
        /\ IsMatrix(layer.fc_neigh_weight, layer.out, layer.in_src)
        /\ layer.has_fc_self <=> layer.aggre_type # "gcn"
        /\ layer.has_fc_self <=>
              IsMatrix(layer.fc_self_weight, layer.out, layer.in_dst)
        /\ layer.has_fc_pool <=> layer.aggre_type = "pool"
        /\ layer.has_fc_pool <=>
              IsMatrix(layer.fc_pool_weight, layer.in_src, layer.in_src)
        /\ layer.has_lstm <=> layer.aggre_type = "lstm"
        /\ layer.has_bias
        /\ layer.bias.some <=> layer.bias_enabled
        /\ layer.bias.some =>
              layer.bias.v = [i \in 1..layer.out |-> 0]

\* A gcn layer with bias, re-initialised with another seed and then used.
C10_Witness ==
    /\ layer.constructed /\ layer.aggre_type = "gcn" /\ layer.bias_enabled
    /\ layer.fc_neigh_weight # XavierUniform(0, layer.out, layer.in_src)
    /\ call.status = "returned"

====
